---- MODULE Spec2Model ----
(***************************************************************************)
(* Invoice manager (src/app.py): record lifecycle and duplicate guard.     *)
(*                                                                         *)
(* Two SQLite tables, invoices (Active) and recycle_bin (Recycled), each   *)
(* with its own AUTOINCREMENT id, and the uploads directory.  Timestamps   *)
(* ('%Y-%m-%d %H:%M:%S' strings, compared as strings by SQLite) are        *)
(* modelled by the integer day they denote: the order is the same.         *)
(*                                                                         *)
(* Every row carries one history field, rec, that the program does not     *)
(* store: the invoices id the record got when it was ingested.  It is      *)
(* copied with the row and is read by properties only, never by an action. *)
(***************************************************************************)
EXTENDS Integers, Sequences, FiniteSets, TLC

VARIABLES
    invoices,      \* committed rows of table invoices
    recycle_bin,   \* committed rows of table recycle_bin
    seq,           \* sqlite_sequence: last AUTOINCREMENT id of each table
    files,         \* uploads directory: file name -> content
    now,           \* wall clock, in days
    resp,          \* the response last returned: operation, status code, outcome
    pc,            \* concurrent handlers: position of each in its code
    loc,           \* concurrent handlers: local variables of each
    writer,        \* connection holding SQLite's write lock, or NoProc
    tx             \* uncommitted view of the tables of the lock holder

vars == <<invoices, recycle_bin, seq, files, now, resp, pc, loc, writer, tx>>
dbvars == <<invoices, recycle_bin, seq>>
concvars == <<pc, loc, writer, tx>>

----------------------------------------------------------------------------
(* Bounds *)

MaxId == 2          \* AUTOINCREMENT ids handed out per table
MaxNow == 31        \* last day of the clock

(* Program constants *)

RetentionDays == 30

NULL == "NULL"
NoProc == "none"
NoTx == [invoices |-> {}, recycle_bin |-> {}, seq |-> [invoices |-> 0, recycle_bin |-> 0]]

----------------------------------------------------------------------------
(* Inputs *)

Docs == {"d1", "d2", "d3"}
Types == {"income", "expense"}
NoFile == [stem |-> "-", ext |-> "-"]
PdfNames == {[stem |-> "a", ext |-> ".pdf"], [stem |-> "a", ext |-> ".PDF"]}
BadNames == {[stem |-> "a", ext |-> ".txt"], [stem |-> "", ext |-> ""], NoFile}
\* rasterization and OCR: both succeed, convert_from_path raises or returns no
\* image (the handler raises ValueError itself), or the OCR engine raises
Upstream == {"ok", "raster_fails", "ocr_fails"}
TickSteps == {RetentionDays - 1, RetentionDays, RetentionDays + 1}

Ids == 1..MaxId
\* the ids list of a request: no id, one id, or two ids (in order, repeats allowed)
IdSeqs == {<<>>} \cup {<<i>> : i \in Ids} \cup {<<i, j>> : i, j \in Ids}

----------------------------------------------------------------------------
(* Pure helpers *)

\* hashlib.md5 over the bytes of the document
get_file_hash(doc) ==
    CASE doc = "d1" -> "h1"
      [] doc = "d2" -> "h2"
      [] doc = "d3" -> "h3"
      [] OTHER -> "h_" \o doc

\* str.lower() on the extension of the file name
Lower(ext) == IF ext = ".PDF" THEN ".pdf" ELSE ext

\* file.filename.lower().endswith('.pdf')
EndsWithPdf(name) == Lower(name.ext) = ".pdf"

\* werkzeug secure_filename: ASCII names are kept (case included); a name
\* whose stem has no ASCII character ("piao" stands for such a stem) loses it
\* and its leading dot, leaving the bare word pdf.
secure_filename(name) ==
    IF name.stem = "piao" THEN [stem |-> "pdf", ext |-> ""] ELSE name

\* f"{timestamp}_{filename}"
StoredName(t, name) == [ts |-> t, stem |-> name.stem, ext |-> name.ext]

\* filepath.replace('.pdf', '.jpg')
ImagePath(path) ==
    IF path.ext = ".pdf" THEN [path EXCEPT !.ext = ".jpg"] ELSE path

\* Documents that differ in how their date is printed, and the date text OCR
\* reads from each: a year, month and day with the markers 年, 月, 日 (written
\* Y, M, D here), the month and the day in one or two digits; or eight digits.
DateDocs == {"t1", "t2", "t3", "t4", "t5", "t6", "t7", "t8", "t9", "t10"}

Year == <<"2", "0", "2", "4">>

DateParts(doc) ==
    CASE doc = "t1" -> [m |-> <<"3">>, d |-> <<"5">>]
      [] doc = "t2" -> [m |-> <<"3">>, d |-> <<"0", "5">>]
      [] doc = "t3" -> [m |-> <<"3">>, d |-> <<"1", "5">>]
      [] doc = "t4" -> [m |-> <<"0", "3">>, d |-> <<"5">>]
      [] doc = "t5" -> [m |-> <<"0", "3">>, d |-> <<"0", "5">>]
      [] doc = "t6" -> [m |-> <<"0", "3">>, d |-> <<"1", "5">>]
      [] doc = "t7" -> [m |-> <<"1", "2">>, d |-> <<"5">>]
      [] doc = "t8" -> [m |-> <<"1", "2">>, d |-> <<"0", "5">>]
      [] doc = "t9" -> [m |-> <<"1", "2">>, d |-> <<"1", "5">>]

OcrDate(doc) ==
    IF doc \in DateDocs \ {"t10"}
    THEN Year \o <<"Y">> \o DateParts(doc).m \o <<"M">> \o DateParts(doc).d \o <<"D">>
    ELSE Year \o <<"0", "3", "0", "5">>

IsDigit(c) == c \in {"0", "1", "2", "3", "4", "5", "6", "7", "8", "9"}

\* the characters of a text joined into a string
RECURSIVE Join(_)
Join(chars) == IF chars = <<>> THEN "" ELSE Head(chars) \o Join(Tail(chars))

\* re.search(r'(\d{4}年\d{1,2}月\d{1,2}日)', text): the matches at every place,
\* each by its start and the lengths of its month and day
QualifiedMatches(text) ==
    {m \in [start : 1..Len(text), a : {1, 2}, b : {1, 2}] :
        /\ m.start + 6 + m.a + m.b <= Len(text)
        /\ \A k \in 0..3 : IsDigit(text[m.start + k])
        /\ text[m.start + 4] = "Y"
        /\ \A k \in 1..m.a : IsDigit(text[m.start + 4 + k])
        /\ text[m.start + 5 + m.a] = "M"
        /\ \A k \in 1..m.b : IsDigit(text[m.start + 5 + m.a + k])
        /\ text[m.start + 6 + m.a + m.b] = "D"}

\* re.search(r'(\d{8})', text): the places where eight digits start
EightDigitStarts(text) ==
    {i \in 1..Len(text) : i + 7 <= Len(text) /\ \A k \in 0..7 : IsDigit(text[i + k])}

\* str.zfill(2)
ZFill2(digits) == IF Len(digits) < 2 THEN <<"0">> \o digits ELSE digits

\* .replace('年', '').replace('月', '').replace('日', '')
StripMarkers(chars) == SelectSeq(chars, IsDigit)

\* The date cascade: the first pattern that matches gives the date (the two
\* patterns with the label match only where one of the first two does); seven
\* digits left after the markers are stripped are split again and padded.
NormalizeDate(text) ==
    IF QualifiedMatches(text) # {}
    THEN LET m == CHOOSE x \in QualifiedMatches(text) :
                      \A y \in QualifiedMatches(text) : x.start <= y.start
             group == SubSeq(text, m.start, m.start + 6 + m.a + m.b)
             date_str == StripMarkers(group)
             parts == <<SubSeq(group, 1, 4), SubSeq(group, 6, 5 + m.a),
                        SubSeq(group, 7 + m.a, 6 + m.a + m.b)>>
         IN  IF Len(date_str) = 7
             THEN parts[1] \o ZFill2(parts[2]) \o ZFill2(parts[3])
             ELSE date_str
    ELSE IF EightDigitStarts(text) # {}
    THEN LET i == CHOOSE x \in EightDigitStarts(text) : \A y \in EightDigitStarts(text) : x <= y
         IN  SubSeq(text, i, i + 7)
    ELSE <<>>

\* What OCR and the pattern cascades recover from the first page of each
\* document, as a table over the documents.
Extraction ==
    [doc \in Docs \cup DateDocs |->
        [invoice_number |-> IF doc \in {"d1", "d2"} THEN "10000001" ELSE "",
         invoice_date |-> Join(NormalizeDate(OcrDate(doc))),
         total_amount |-> "1234.56",
         invoice_content |-> "",
         seller_name |-> "",
         bank_name |-> "",
         bank_account |-> ""]]

extract_invoice_info(doc) == Extraction[doc]

ExtractedFields == {"invoice_number", "invoice_date", "total_amount", "invoice_content",
                    "seller_name", "bank_name", "bank_account"}

\* jsonify(...), status: the handler that answered, the HTTP status, and the
\* outcome the body names (its 'warning', 'error' or 'success' entry)
Response(op, code, tag) == [op |-> op, code |-> code, tag |-> tag]

\* as RemoveIfExists, removing nothing
RemoveIfExists_Keeps(fs, path) == fs

\* os.remove(path), of a path that may be gone already
RemoveIfExists(fs, path) ==
    [p \in (DOMAIN fs) \ {path} |-> fs[p]]

\* file.save(path) / image.save(path): creates or overwrites
WriteFile(fs, path, content) ==
    [p \in (DOMAIN fs) \cup {path} |-> IF p = path THEN content ELSE fs[p]]

----------------------------------------------------------------------------
(* SQL statements, on a view db = [invoices, recycle_bin, seq] *)

Committed == [invoices |-> invoices, recycle_bin |-> recycle_bin, seq |-> seq]

\* SELECT ... FROM <table> WHERE id = ?   (the set holds at most one row)
SelectById(rows, id) == {r \in rows : r.id = id}

\* SELECT id FROM invoices WHERE file_hash = ?
SelectByHash(rows, h) == {r \in rows : r.file_hash = h}

\* SELECT id FROM invoices WHERE invoice_number = ?
SelectByNumber(rows, n) == {r \in rows : r.invoice_number = n}

\* INSERT INTO invoices (...) VALUES (...), the id from AUTOINCREMENT
InsertInvoice(db, row) ==
    LET id == db.seq.invoices + 1
    IN [db EXCEPT !.invoices = @ \cup {[c \in DOMAIN row \cup {"id"} |->
                                            IF c = "id" THEN id ELSE row[c]]},
                  !.seq.invoices = id]

\* INSERT INTO recycle_bin (...) VALUES (...), the id from AUTOINCREMENT
InsertRecycle(db, row) ==
    LET id == db.seq.recycle_bin + 1
    IN [db EXCEPT !.recycle_bin = @ \cup {[c \in DOMAIN row \cup {"id"} |->
                                               IF c = "id" THEN id ELSE row[c]]},
                  !.seq.recycle_bin = id]

\* DELETE FROM invoices WHERE id = ?
DeleteInvoice(db, id) == [db EXCEPT !.invoices = {r \in @ : r.id # id}]

\* as DeleteRecycle, deleting from both tables
DeleteRecycle_AlsoActive(db, id) ==
    [db EXCEPT !.recycle_bin = {r \in @ : r.id # id}, !.invoices = {r \in @ : r.id # id}]

\* DELETE FROM recycle_bin WHERE id = ?
DeleteRecycle(db, id) == [db EXCEPT !.recycle_bin = {r \in @ : r.id # id}]

----------------------------------------------------------------------------
(* upload_invoice *)

\* as FingerprintDuplicate, with the force flag read the wrong way round
FingerprintDuplicate_ForceInverted(rows, h, force) ==
    force /\ SelectByHash(rows, h) # {}

\* the fingerprint check: not force_upload and a row with this file_hash
FingerprintDuplicate(rows, h, force) ==
    ~force /\ SelectByHash(rows, h) # {}

\* as NumberDuplicate, without the force flag
NumberDuplicate_IgnoresForce(rows, number, force) ==
    number # "" /\ SelectByNumber(rows, number) # {}

\* the invoice-number check: not force_upload, a number, and a row with it
NumberDuplicate(rows, number, force) ==
    ~force /\ number # "" /\ SelectByNumber(rows, number) # {}

\* the values of the INSERT (the id comes from AUTOINCREMENT)
NewInvoiceRow(type, buyer, data, filename, h, t, rec) ==
    [type |-> type, buyer_name |-> buyer,
     invoice_number |-> data.invoice_number, invoice_date |-> data.invoice_date,
     total_amount |-> data.total_amount, invoice_content |-> data.invoice_content,
     seller_name |-> data.seller_name, bank_name |-> data.bank_name,
     bank_account |-> data.bank_account,
     pdf_path |-> filename, file_hash |-> h, created_at |-> t, updated_at |-> t,
     rec |-> rec]

\* request.form.get('buyer_name', '').strip(): a missing or blank field is ''
FormBuyer(buyer) == IF buyer \in {NULL, " "} THEN "" ELSE buyer

\* as CleanUp, removing nothing
CleanUp_Nothing(fs, paths) == fs

\* the except block: filepath and img_path, those that are set (paths) and
\* exist, are removed
CleanUp(fs, paths) == [p \in (DOMAIN fs) \ paths |-> fs[p]]

\* The whole handler: the outcome [db, files, resp, body] of one upload request;
\* body is the JSON object of the answer.
UploadOutcome(db, fs, t, file, doc, type, buyer, force, upstream) ==
    LET h == get_file_hash(doc)
        buyer_name == FormBuyer(buyer)
        filename == StoredName(t, secure_filename(file))
        img_path == ImagePath(filename)
        saved == WriteFile(fs, filename, doc)
        imaged == WriteFile(saved, img_path, "jpeg")
        data == extract_invoice_info(doc)
        extracted == RemoveIfExists(imaged, img_path)
        unchanged(code, tag) == [db |-> db, files |-> fs, resp |-> Response("upload", code, tag),
                                 body |-> [error |-> tag]]
        failed(f, tag) == [db |-> db, files |-> f, resp |-> Response("upload", 500, tag),
                           body |-> [error |-> tag]]
    IN  IF file = NoFile THEN unchanged(400, "no_file")
        ELSE IF file.stem = "" /\ file.ext = "" THEN unchanged(400, "no_filename")
        ELSE IF ~EndsWithPdf(file) THEN unchanged(400, "not_pdf")
        ELSE IF FingerprintDuplicate(db.invoices, h, force)
             THEN [db |-> db, files |-> fs, resp |-> Response("upload", 409, "duplicate_file"),
                   body |-> [warning |-> "duplicate_file", message |-> "already uploaded"]]
        ELSE IF upstream = "raster_fails"
             \* img_path is still None
             THEN failed(CleanUp(saved, {filename}), "raster_failed")
        ELSE IF upstream = "ocr_fails"
             THEN failed(CleanUp(imaged, {filename, img_path}), "ocr_failed")
        ELSE IF NumberDuplicate(db.invoices, data.invoice_number, force)
             THEN IF filename \in DOMAIN extracted
                  THEN [db |-> db, files |-> RemoveIfExists(extracted, filename),
                        resp |-> Response("upload", 409, "duplicate_number"),
                        body |-> [warning |-> "duplicate_number",
                                  message |-> data.invoice_number]]
                  \* os.remove(filepath) raises FileNotFoundError
                  ELSE failed(CleanUp(extracted, {filename}), "upload_failed")
        ELSE IF type = NULL
             \* the INSERT violates type TEXT NOT NULL
             THEN failed(CleanUp(extracted, {filename}), "upload_failed")
        ELSE [db |-> InsertInvoice(db, NewInvoiceRow(type, buyer_name, data, filename, h, t,
                                                     db.seq.invoices + 1)),
              files |-> extracted,
              resp |-> Response("upload", 200, "success"),
              body |-> [success |-> TRUE, message |-> "uploaded", data |-> data]]

----------------------------------------------------------------------------
(* get_invoices *)

\* the keys of valid_sorts
ValidSorts == {"invoice_date", "created_at", "invoice_number", "buyer_name", "total_amount"}

\* sort_by and order as requests give them
SortInputs == ValidSorts \cup {"buyer", "file_hash"}
Orders == {"ASC", "asc", "DESC", "down"}

\* str.upper() on the order argument
Upper(order) ==
    CASE order = "asc" -> "ASC"
      [] order = "desc" -> "DESC"
      [] OTHER -> order

\* sort_by if sort_by in valid_sorts else 'created_at'
SortField(sort_by) == IF sort_by \in ValidSorts THEN sort_by ELSE "created_at"

\* 'ASC' if order.upper() == 'ASC' else 'DESC'
SortOrder(order) == IF Upper(order) = "ASC" THEN "ASC" ELSE "DESC"

\* the columns of the SELECT list (and the history field)
ListColumns == {"id", "type", "buyer_name", "pdf_path", "created_at", "rec"} \cup ExtractedFields

\* the texts of the sortable columns, in SQLite's binary order
TextOrder == <<"", "10000001", "10000002", "20240305", "20250101", "alice", "bob">>

TextRank(v) == CHOOSE i \in 1..Len(TextOrder) : TextOrder[i] = v

\* CAST(total_amount AS REAL), in hundredths; a text that is not a number casts to 0
CastReal(v) ==
    CASE v = "1234.56" -> 123456
      [] v = "9.99" -> 999
      [] OTHER -> 0

\* the value ORDER BY compares for a row
SortValue(row, field) ==
    CASE field = "created_at" -> row.created_at
      [] field = "total_amount" -> CastReal(row.total_amount)
      [] OTHER -> TextRank(row[field])

\* ORDER BY <field> <dir> on a sequence of rows
Ordered(rows, field, dir) ==
    \A i, j \in 1..Len(rows) :
        i < j => IF dir = "ASC" THEN SortValue(rows[i], field) <= SortValue(rows[j], field)
                 ELSE SortValue(rows[i], field) >= SortValue(rows[j], field)

\* every arrangement of a set of rows in a sequence
Arrangements(S) ==
    {f \in [1..Cardinality(S) -> S] : \A i, j \in 1..Cardinality(S) : i # j => f[i] # f[j]}

\* SELECT <columns> FROM invoices WHERE type = ? ORDER BY <field> <dir>: the
\* sequences the query may return (rows that compare equal come in any order)
SelectOrdered(rows, type, field, dir) ==
    LET found == {[c \in ListColumns |-> r[c]] : r \in {q \in rows : q.type = type}}
    IN  {f \in Arrangements(found) : Ordered(f, field, dir)}

\* The whole handler; data is the set of sequences it may return.  The key of
\* the query is always one of queries, so the default of queries.get is never used.
GetInvoicesOutcome(db, fs, type, sort_by, order) ==
    [db |-> db, files |-> fs, resp |-> Response("list", 200, "success"),
     data |-> SelectOrdered(db.invoices, type, SortField(sort_by), SortOrder(order))]

----------------------------------------------------------------------------
(* search_invoices *)

\* LIMIT 100
SearchLimit == 100

\* the arguments of a search as requests give them ("" when absent)
Keywords == {"", "lic", "a_ice", "bob"}
SearchTypes == {"", "income", "expense"}
SearchDates == {"", "2024-03-05", "20250101"}
SearchAmounts == {"", "0", "2000", "x"}

\* the characters of the texts that searches compare
Chars(v) ==
    CASE v = "" -> <<>>
      [] v = " " -> <<" ">>
      [] v = "alice" -> <<"a", "l", "i", "c", "e">>
      [] v = "bob" -> <<"b", "o", "b">>
      [] v = "lic" -> <<"l", "i", "c">>
      [] v = "a_ice" -> <<"a", "_", "i", "c", "e">>
      [] v = "10000001" -> <<"1", "0", "0", "0", "0", "0", "0", "1">>
      [] v = "10000002" -> <<"1", "0", "0", "0", "0", "0", "0", "2">>

\* str.strip() on the keyword
Strip(v) == IF v = " " THEN "" ELSE v

\* <column> LIKE '%keyword%', for a keyword without '%': the keyword occurs in
\* the text, an underscore of the keyword standing for any one character
LikeContains(text, keyword) ==
    LET t == Chars(text)
        k == Chars(keyword)
    IN  \E i \in 0..(Len(t) - Len(k)) : \A j \in 1..Len(k) : k[j] = "_" \/ k[j] = t[i + j]

\* start_date.replace('-', '')
Dashless(d) == IF d = "2024-03-05" THEN "20240305" ELSE d

\* float(min_amount), in hundredths; it raises ValueError on a text that is no number
IsNumber(a) == a \in {"0", "2000"}
ParseFloat(a) == IF a = "2000" THEN 200000 ELSE 0

\* the WHERE clause: the conditions of the arguments that are given, joined by AND
SearchWhere(r, keyword, type, start_date, end_date, min_amount, max_amount) ==
    /\ keyword # "" =>
           \E c \in {"invoice_number", "buyer_name", "seller_name", "invoice_content"} :
               LikeContains(r[c], keyword)
    /\ type # "" => r.type = type
    /\ start_date # "" => TextRank(r.invoice_date) >= TextRank(Dashless(start_date))
    /\ end_date # "" => TextRank(r.invoice_date) <= TextRank(Dashless(end_date))
    /\ min_amount # "" => CastReal(r.total_amount) >= ParseFloat(min_amount)
    /\ max_amount # "" => CastReal(r.total_amount) <= ParseFloat(max_amount)

\* LIMIT n on a sequence of rows
Limit(rows, n) == SubSeq(rows, 1, IF Len(rows) < n THEN Len(rows) ELSE n)

\* The whole handler; data is the set of sequences it may return.
SearchOutcome(db, fs, keyword, type, start_date, end_date, min_amount, max_amount) ==
    IF \E a \in {min_amount, max_amount} : a # "" /\ ~IsNumber(a)
    THEN [db |-> db, files |-> fs, resp |-> Response("search", 500, "search_failed"),
          data |-> {}]
    ELSE LET found == {[c \in ListColumns |-> r[c]] :
                          r \in {q \in db.invoices :
                                    SearchWhere(q, Strip(keyword), type, start_date, end_date,
                                                min_amount, max_amount)}}
         IN  [db |-> db, files |-> fs, resp |-> Response("search", 200, "success"),
              data |-> {Limit(f, SearchLimit) :
                           f \in {g \in Arrangements(found) : Ordered(g, "created_at", "DESC")}}]

----------------------------------------------------------------------------
(* delete_invoices *)

\* as RecycleRow, but the deletion is also stamped on updated_at
RecycleRow_StampsUpdate(invoice, t) ==
    [c \in ((DOMAIN invoice) \ {"id"}) \cup {"deleted_at"} |->
        IF c \in {"deleted_at", "updated_at"} THEN t ELSE invoice[c]]

\* row_dict without 'id', plus deleted_at
RecycleRow(invoice, t) ==
    [c \in ((DOMAIN invoice) \ {"id"}) \cup {"deleted_at"} |->
        IF c = "deleted_at" THEN t ELSE invoice[c]]

\* one pass of the loop over invoice_ids
DeleteOne(db, t, id) ==
    LET found == SelectById(db.invoices, id)
    IN  IF found = {} THEN db
        ELSE DeleteInvoice(InsertRecycle(db, RecycleRow(CHOOSE r \in found : TRUE, t)), id)

RECURSIVE DeleteLoop(_, _, _)
DeleteLoop(db, t, ids) ==
    IF ids = <<>> THEN db ELSE DeleteLoop(DeleteOne(db, t, Head(ids)), t, Tail(ids))

DeleteOutcome(db, fs, t, ids) ==
    IF ids = <<>>
    THEN [db |-> db, files |-> fs, resp |-> Response("delete", 400, "no_ids")]
    ELSE [db |-> DeleteLoop(db, t, ids), files |-> fs, resp |-> Response("delete", 200, "success")]

----------------------------------------------------------------------------
(* restore_invoices *)

\* row_dict without 'id' and 'deleted_at'
RestoreRow(invoice) ==
    [c \in (DOMAIN invoice) \ {"id", "deleted_at"} |-> invoice[c]]

\* one pass of the loop over invoice_ids
RestoreOne(db, id) ==
    LET found == SelectById(db.recycle_bin, id)
    IN  IF found = {} THEN db
        ELSE DeleteRecycle(InsertInvoice(db, RestoreRow(CHOOSE r \in found : TRUE)), id)

RECURSIVE RestoreLoop(_, _)
RestoreLoop(db, ids) ==
    IF ids = <<>> THEN db ELSE RestoreLoop(RestoreOne(db, Head(ids)), Tail(ids))

RestoreOutcome(db, fs, ids) ==
    IF ids = <<>>
    THEN [db |-> db, files |-> fs, resp |-> Response("restore", 400, "no_ids")]
    ELSE [db |-> RestoreLoop(db, ids), files |-> fs, resp |-> Response("restore", 200, "success")]

----------------------------------------------------------------------------
(* get_recycle_bin *)

\* as Expired, with <= for <
Expired_Inclusive(row, t) == row.deleted_at <= t - RetentionDays

\* deleted_at < thirty_days_ago
Expired(row, t) == row.deleted_at < t - RetentionDays

\* DELETE FROM recycle_bin WHERE deleted_at < ?
Sweep(db, t) == [db EXCEPT !.recycle_bin = {r \in @ : ~Expired(r, t)}]

\* SELECT * FROM recycle_bin WHERE type = ?
SelectRecycledByType(rows, type) == {r \in rows : r.type = type}

GetRecycleBinOutcome(db, fs, t, type) ==
    [db |-> Sweep(db, t), files |-> fs,
     resp |-> Response("recycle_bin", 200, "success"),
     data |-> SelectRecycledByType(Sweep(db, t).recycle_bin, type)]

----------------------------------------------------------------------------
(* permanent_delete_invoices *)

\* one pass of the loop: the file of the row goes when it exists, then the row
PermanentDeleteOne(st, id) ==
    LET found == SelectById(st.db.recycle_bin, id)
    IN  [db |-> DeleteRecycle(st.db, id),
         files |-> IF found = {} THEN st.files
                   ELSE RemoveIfExists(st.files, (CHOOSE r \in found : TRUE).pdf_path)]

RECURSIVE PermanentDeleteLoop(_, _)
PermanentDeleteLoop(st, ids) ==
    IF ids = <<>> THEN st
    ELSE PermanentDeleteLoop(PermanentDeleteOne(st, Head(ids)), Tail(ids))

PermanentDeleteOutcome(db, fs, ids) ==
    IF ids = <<>>
    THEN [db |-> db, files |-> fs, resp |-> Response("permanent_delete", 400, "no_ids")]
    ELSE LET st == PermanentDeleteLoop([db |-> db, files |-> fs], ids)
         IN  [db |-> st.db, files |-> st.files,
              resp |-> Response("permanent_delete", 200, "success")]

----------------------------------------------------------------------------
(* empty_recycle_bin *)

\* the rows the request empties: those of invoice_type, or all without one
EmptiedRows(rows, type) == IF type # NULL THEN SelectRecycledByType(rows, type) ELSE rows

EmptyRecycleBinOutcome(db, fs, type) ==
    LET gone == EmptiedRows(db.recycle_bin, type)
    IN  [db |-> [db EXCEPT !.recycle_bin = @ \ gone],
         files |-> [p \in (DOMAIN fs) \ {r.pdf_path : r \in gone} |-> fs[p]],
         resp |-> Response("empty", 200, "success")]

----------------------------------------------------------------------------
(* update_invoice and batch_update_invoices *)

\* as UpdateAllowed, with the fingerprint column added
UpdateAllowed_WithHash ==
    {"buyer_name", "invoice_number", "invoice_date", "total_amount", "invoice_content",
     "seller_name", "bank_name", "bank_account", "type", "file_hash"}

\* allowed_fields of update_invoice
UpdateAllowed == {"buyer_name", "invoice_number", "invoice_date", "total_amount",
                  "invoice_content", "seller_name", "bank_name", "bank_account", "type"}

\* as BatchUpdateAllowed, with the list of update_invoice
BatchUpdateAllowed_AsUpdate == UpdateAllowed

\* allowed_fields of batch_update_invoices
BatchUpdateAllowed == {"buyer_name", "type"}

\* as FilterFields, without the filter
FilterFields_KeepsAll(data, allowed) == data

\* {k: v for k, v in data.items() if k in allowed_fields}
FilterFields(data, allowed) == [k \in (DOMAIN data) \cap allowed |-> data[k]]

\* type and buyer_name are TEXT NOT NULL
ViolatesNotNull(update_data) ==
    \E k \in (DOMAIN update_data) \cap {"type", "buyer_name"} : update_data[k] = NULL

\* UPDATE invoices SET <update_data>, updated_at = ? WHERE id = ?
UpdateRow(db, id, update_data, t) ==
    [db EXCEPT !.invoices =
        {IF r.id # id THEN r
         ELSE [c \in DOMAIN r |-> IF c \in DOMAIN update_data THEN update_data[c]
                                  ELSE IF c = "updated_at" THEN t
                                  ELSE r[c]] : r \in @}]

UpdateOutcome(db, fs, t, id, data) ==
    LET update_data == FilterFields(data, UpdateAllowed)
        answer(d, code, tag) == [db |-> d, files |-> fs, resp |-> Response("update", code, tag)]
    IN  IF DOMAIN data = {} THEN answer(db, 400, "no_data")
        ELSE IF DOMAIN update_data = {} THEN answer(db, 400, "no_valid_fields")
        ELSE IF SelectById(db.invoices, id) = {} THEN answer(db, 404, "not_found")
        ELSE IF ViolatesNotNull(update_data) THEN answer(db, 500, "update_failed")
        ELSE answer(UpdateRow(db, id, update_data, t), 200, "success")

RECURSIVE BatchUpdateLoop(_, _, _, _)
BatchUpdateLoop(db, ids, update_data, t) ==
    IF ids = <<>> THEN db
    ELSE BatchUpdateLoop(UpdateRow(db, Head(ids), update_data, t), Tail(ids), update_data, t)

BatchUpdateOutcome(db, fs, t, ids, data) ==
    LET update_data == FilterFields(data, BatchUpdateAllowed)
        answer(d, code, tag) ==
            [db |-> d, files |-> fs, resp |-> Response("batch_update", code, tag)]
    IN  IF ids = <<>> THEN answer(db, 400, "no_ids")
        ELSE IF DOMAIN update_data = {} THEN answer(db, 400, "no_valid_fields")
        ELSE IF ViolatesNotNull(update_data)
                /\ \E i \in 1..Len(ids) : SelectById(db.invoices, ids[i]) # {}
             THEN answer(db, 500, "batch_update_failed")
        ELSE answer(BatchUpdateLoop(db, ids, update_data, t), 200, "success")

\* request bodies
NoData == [k \in {} |-> ""]
JunkData == [id |-> 99, file_hash |-> "hx", created_at |-> 99, rec |-> 99]
NullData == [type |-> NULL]
AllData == [type |-> "expense", buyer_name |-> "bob", invoice_number |-> "10000002",
            invoice_date |-> "20250101", total_amount |-> "9.99", invoice_content |-> "c",
            seller_name |-> "s", bank_name |-> "b", bank_account |-> "1234567890",
            id |-> 99, file_hash |-> "hx", created_at |-> 99, updated_at |-> 99]
UpdateBodies == {NoData, JunkData, NullData, AllData}
BlankData == [type |-> "", buyer_name |-> ""]
BuyerData == [buyer_name |-> "bob", file_hash |-> "hx"]
RecordBodies == {BlankData, BuyerData}
BlankAmount == [total_amount |-> ""]
NumberData == [invoice_number |-> "10000001"]

----------------------------------------------------------------------------
(* Requests handled one at a time: each handler runs from start to end *)

Quiet == writer = NoProc /\ \A p \in DOMAIN pc : pc[p] = "idle"

InBounds(db) ==
    /\ db.seq.invoices <= MaxId
    /\ db.seq.recycle_bin <= MaxId

Handle(out) ==
    /\ Quiet
    /\ InBounds(out.db)
    /\ invoices' = out.db.invoices
    /\ recycle_bin' = out.db.recycle_bin
    /\ seq' = out.db.seq
    /\ files' = out.files
    /\ resp' = out.resp
    /\ UNCHANGED <<now, concvars>>

Upload(file, doc, type, buyer, force, upstream) ==
    Handle(UploadOutcome(Committed, files, now, file, doc, type, buyer, force, upstream))

Delete(ids) == Handle(DeleteOutcome(Committed, files, now, ids))

Restore(ids) == Handle(RestoreOutcome(Committed, files, ids))

GetRecycleBin(type) == Handle(GetRecycleBinOutcome(Committed, files, now, type))

PermanentDelete(ids) == Handle(PermanentDeleteOutcome(Committed, files, ids))

EmptyRecycleBin(type) == Handle(EmptyRecycleBinOutcome(Committed, files, type))

Update(id, data) == Handle(UpdateOutcome(Committed, files, now, id, data))

BatchUpdate(ids, data) == Handle(BatchUpdateOutcome(Committed, files, now, ids, data))

GetInvoices(type, sort_by, order) ==
    Handle(GetInvoicesOutcome(Committed, files, type, sort_by, order))

Search(keyword, type, start_date, end_date, min_amount, max_amount) ==
    Handle(SearchOutcome(Committed, files, keyword, type, start_date, end_date,
                         min_amount, max_amount))

\* time passes
Tick(d) ==
    /\ Quiet
    /\ now + d <= MaxNow
    /\ now' = now + d
    /\ UNCHANGED <<invoices, recycle_bin, seq, files, resp, concvars>>

----------------------------------------------------------------------------
(* Requests handled concurrently (the server runs one thread per request):  *)
(* delete_invoices and restore_invoices, one statement at a time.           *)
(*                                                                          *)
(* Each request has its own connection.  A SELECT outside a transaction     *)
(* reads the committed tables.  The first INSERT opens a transaction and    *)
(* takes SQLite's write lock, which one connection holds at a time; what    *)
(* the holder writes is seen by it alone until conn.commit() publishes it.  *)
(* A connection that cannot get the lock within the busy timeout raises     *)
(* "database is locked"; the handler answers 500 and the connection closes. *)

Procs == {"p1", "p2"}

\* the tables as connection p reads them
View(p) == IF writer = p THEN tx ELSE Committed

\* the request arrives: data.get('ids', []); an empty list is answered at once
Begin(p, op, ids) ==
    /\ pc[p] = "idle"
    /\ IF ids = <<>>
       THEN /\ resp' = Response(op, 400, "no_ids")
            /\ UNCHANGED <<pc, loc>>
       ELSE /\ pc' = [pc EXCEPT ![p] = op \o "_select"]
            /\ loc' = [loc EXCEPT ![p] = [ids |-> ids, invoice |-> {}]]
            /\ UNCHANGED resp
    /\ UNCHANGED <<invoices, recycle_bin, seq, files, now, writer, tx>>

\* top of the loop: SELECT * FROM <table> WHERE id = ?, or conn.commit() after it
Select(p, op) ==
    /\ pc[p] = op \o "_select"
    /\ IF loc[p].ids = <<>>
       THEN /\ pc' = [pc EXCEPT ![p] = op \o "_commit"]
            /\ UNCHANGED loc
       ELSE LET rows == IF op = "delete" THEN View(p).invoices ELSE View(p).recycle_bin
                found == SelectById(rows, Head(loc[p].ids))
            IN  IF found = {}
                THEN /\ loc' = [loc EXCEPT ![p].ids = Tail(@)]
                     /\ UNCHANGED pc
                ELSE /\ loc' = [loc EXCEPT ![p].invoice = found]
                     /\ pc' = [pc EXCEPT ![p] = op \o "_insert"]
    /\ UNCHANGED <<invoices, recycle_bin, seq, files, now, resp, writer, tx>>

\* INSERT INTO recycle_bin / INSERT INTO invoices, of the row the SELECT returned
Insert(p, op) ==
    /\ pc[p] = op \o "_insert"
    /\ writer \in {NoProc, p}
    /\ LET invoice == CHOOSE r \in loc[p].invoice : TRUE
           after == IF op = "delete" THEN InsertRecycle(View(p), RecycleRow(invoice, now))
                                     ELSE InsertInvoice(View(p), RestoreRow(invoice))
       IN  /\ after.seq.invoices <= MaxId
           /\ after.seq.recycle_bin <= MaxId
           /\ tx' = after
    /\ writer' = p
    /\ pc' = [pc EXCEPT ![p] = op \o "_remove"]
    /\ UNCHANGED <<invoices, recycle_bin, seq, files, now, resp, loc>>

\* DELETE FROM invoices / DELETE FROM recycle_bin WHERE id = ?
Remove(p, op) ==
    /\ pc[p] = op \o "_remove"
    /\ tx' = IF op = "delete" THEN DeleteInvoice(tx, Head(loc[p].ids))
                              ELSE DeleteRecycle(tx, Head(loc[p].ids))
    /\ loc' = [loc EXCEPT ![p] = [ids |-> Tail(@.ids), invoice |-> {}]]
    /\ pc' = [pc EXCEPT ![p] = op \o "_select"]
    /\ UNCHANGED <<invoices, recycle_bin, seq, files, now, resp, writer>>

\* conn.commit() and the answer
Commit(p, op) ==
    /\ pc[p] = op \o "_commit"
    /\ IF writer = p
       THEN /\ invoices' = tx.invoices
            /\ recycle_bin' = tx.recycle_bin
            /\ seq' = tx.seq
            /\ writer' = NoProc
            /\ tx' = NoTx
       ELSE UNCHANGED <<invoices, recycle_bin, seq, writer, tx>>
    /\ resp' = Response(op, 200, "success")
    /\ pc' = [pc EXCEPT ![p] = "idle"]
    /\ UNCHANGED <<files, now, loc>>

\* the write lock is not obtained in time: sqlite3.OperationalError, answered 500
Busy(p, op) ==
    /\ pc[p] = op \o "_insert"
    /\ writer \notin {NoProc, p}
    /\ resp' = Response(op, 500, "failed")
    /\ pc' = [pc EXCEPT ![p] = "idle"]
    /\ loc' = [loc EXCEPT ![p] = [ids |-> <<>>, invoice |-> {}]]
    /\ UNCHANGED <<invoices, recycle_bin, seq, files, now, writer, tx>>

\* as Closed, keeping what the connection wrote
Closed_KeepsWrites(p) == View(p)

\* the tables after conn.close() on connection p: what p wrote and did not
\* commit is rolled back
Closed(p) == Committed

\* the store raises at a statement or at the commit of request p: the with
\* block closes the connection and the except block answers 500
Fail(p, op) ==
    /\ pc[p] \in {op \o "_select", op \o "_insert", op \o "_remove", op \o "_commit"}
    /\ invoices' = Closed(p).invoices
    /\ recycle_bin' = Closed(p).recycle_bin
    /\ seq' = Closed(p).seq
    /\ writer' = IF writer = p THEN NoProc ELSE writer
    /\ tx' = IF writer = p THEN NoTx ELSE tx
    /\ resp' = Response(op, 500, "failed")
    /\ pc' = [pc EXCEPT ![p] = "idle"]
    /\ UNCHANGED <<files, now, loc>>

----------------------------------------------------------------------------
(* upload_invoice handled concurrently, one step at a time: the fingerprint  *)
(* check, the save of the document, rasterization and OCR, the invoice-number *)
(* check, the INSERT and the commit.  The requests carry force = false, a     *)
(* PDF name, a category and a buyer.  The two SELECTs run before the          *)
(* connection has a transaction and read the committed tables.                *)

NoLocals == [ids |-> <<>>, invoice |-> {}]

\* the request arrives with a document; file_hash is computed
UploadBegin(p, doc) ==
    /\ pc[p] = "idle"
    /\ pc' = [pc EXCEPT ![p] = "upload_check"]
    /\ loc' = [loc EXCEPT ![p] = [doc |-> doc,
                                  filename |-> StoredName(now, [stem |-> "a", ext |-> ".pdf"])]]
    /\ UNCHANGED <<invoices, recycle_bin, seq, files, now, resp, writer, tx>>

\* SELECT id FROM invoices WHERE file_hash = ?, answered 409 when a row is found
UploadCheckHash(p) ==
    /\ pc[p] = "upload_check"
    /\ IF FingerprintDuplicate(View(p).invoices, get_file_hash(loc[p].doc), FALSE)
       THEN /\ resp' = Response("upload", 409, "duplicate_file")
            /\ pc' = [pc EXCEPT ![p] = "idle"]
            /\ loc' = [loc EXCEPT ![p] = NoLocals]
       ELSE /\ pc' = [pc EXCEPT ![p] = "upload_save"]
            /\ UNCHANGED <<resp, loc>>
    /\ UNCHANGED <<invoices, recycle_bin, seq, files, now, writer, tx>>

\* file.save(filepath)
UploadSave(p) ==
    /\ pc[p] = "upload_save"
    /\ files' = WriteFile(files, loc[p].filename, loc[p].doc)
    /\ pc' = [pc EXCEPT ![p] = "upload_extract"]
    /\ UNCHANGED <<invoices, recycle_bin, seq, now, resp, loc, writer, tx>>

\* convert_from_path, the page image saved, extract_invoice_info, the image removed
UploadExtract(p) ==
    /\ pc[p] = "upload_extract"
    /\ files' = RemoveIfExists(WriteFile(files, ImagePath(loc[p].filename), "jpeg"),
                               ImagePath(loc[p].filename))
    /\ pc' = [pc EXCEPT ![p] = "upload_number"]
    /\ UNCHANGED <<invoices, recycle_bin, seq, now, resp, loc, writer, tx>>

\* SELECT id FROM invoices WHERE invoice_number = ?; when a row is found the
\* document is removed and the answer is 409 (500 when the document is gone)
UploadCheckNumber(p) ==
    /\ pc[p] = "upload_number"
    /\ IF NumberDuplicate(View(p).invoices, extract_invoice_info(loc[p].doc).invoice_number,
                          FALSE)
       THEN /\ resp' = IF loc[p].filename \in DOMAIN files
                       THEN Response("upload", 409, "duplicate_number")
                       ELSE Response("upload", 500, "upload_failed")
            /\ files' = RemoveIfExists(files, loc[p].filename)
            /\ pc' = [pc EXCEPT ![p] = "idle"]
            /\ loc' = [loc EXCEPT ![p] = NoLocals]
       ELSE /\ pc' = [pc EXCEPT ![p] = "upload_insert"]
            /\ UNCHANGED <<resp, files, loc>>
    /\ UNCHANGED <<invoices, recycle_bin, seq, now, writer, tx>>

\* INSERT INTO invoices: opens the transaction and takes the write lock,
\* waiting while another connection holds it
UploadInsert(p) ==
    /\ pc[p] = "upload_insert"
    /\ writer \in {NoProc, p}
    /\ View(p).seq.invoices < MaxId
    /\ tx' = InsertInvoice(View(p),
                           NewInvoiceRow("income", "alice", extract_invoice_info(loc[p].doc),
                                         loc[p].filename, get_file_hash(loc[p].doc), now,
                                         View(p).seq.invoices + 1))
    /\ writer' = p
    /\ pc' = [pc EXCEPT ![p] = "upload_commit"]
    /\ UNCHANGED <<invoices, recycle_bin, seq, files, now, resp, loc>>

\* conn.commit() and the answer
UploadCommit(p) ==
    /\ pc[p] = "upload_commit"
    /\ writer = p
    /\ invoices' = tx.invoices
    /\ recycle_bin' = tx.recycle_bin
    /\ seq' = tx.seq
    /\ writer' = NoProc
    /\ tx' = NoTx
    /\ resp' = Response("upload", 200, "success")
    /\ pc' = [pc EXCEPT ![p] = "idle"]
    /\ loc' = [loc EXCEPT ![p] = NoLocals]
    /\ UNCHANGED <<files, now>>

\* the write lock is not obtained in time: the except block removes the
\* document and answers 500
UploadBusy(p) ==
    /\ pc[p] = "upload_insert"
    /\ writer \notin {NoProc, p}
    /\ files' = CleanUp(files, {loc[p].filename})
    /\ resp' = Response("upload", 500, "upload_failed")
    /\ pc' = [pc EXCEPT ![p] = "idle"]
    /\ loc' = [loc EXCEPT ![p] = NoLocals]
    /\ UNCHANGED <<invoices, recycle_bin, seq, now, writer, tx>>

----------------------------------------------------------------------------
Init ==
    /\ invoices = {}
    /\ recycle_bin = {}
    /\ seq = [invoices |-> 0, recycle_bin |-> 0]
    /\ files = [p \in {} |-> ""]
    /\ now = 0
    /\ resp = Response("none", 0, "none")
    /\ pc = [p \in Procs |-> "idle"]
    /\ loc = [p \in Procs |-> [ids |-> <<>>, invoice |-> {}]]
    /\ writer = NoProc
    /\ tx = NoTx

\* Lifecycle: valid uploads, then deletes, restores, purges and the passing of time
Next ==
    \/ \E type \in Types, force \in BOOLEAN :
          Upload([stem |-> "a", ext |-> ".pdf"], "d1", type, "alice", force, "ok")
    \/ \E ids \in IdSeqs : Delete(ids)
    \/ \E ids \in IdSeqs : Restore(ids)
    \/ \E type \in Types : GetRecycleBin(type)
    \/ \E ids \in IdSeqs : PermanentDelete(ids)
    \/ \E type \in Types \cup {NULL} : EmptyRecycleBin(type)
    \/ \E d \in TickSteps : Tick(d)

Spec == Init /\ [][Next]_vars

\* Ingestion: every kind of upload request, with deletes and restores between them
NextIngest ==
    \/ \E file \in PdfNames, doc \in Docs, type \in {"income", NULL},
          force \in BOOLEAN, upstream \in Upstream :
          Upload(file, doc, type, "alice", force, upstream)
    \/ \E file \in BadNames : Upload(file, "d1", "income", "alice", FALSE, "ok")
    \/ \E ids \in IdSeqs : Delete(ids)
    \/ \E ids \in IdSeqs : Restore(ids)

SpecIngest == Init /\ [][NextIngest]_vars

\* Updates: valid uploads, single and batch updates, deletes, and the passing of time
NextUpdate ==
    \/ \E force \in BOOLEAN :
          Upload([stem |-> "a", ext |-> ".pdf"], "d1", "income", "alice", force, "ok")
    \/ \E id \in Ids, data \in UpdateBodies : Update(id, data)
    \/ \E ids \in IdSeqs, data \in UpdateBodies : BatchUpdate(ids, data)
    \/ \E ids \in IdSeqs : Delete(ids)
    \/ Tick(RetentionDays + 1)

SpecUpdate == Init /\ [][NextUpdate]_vars

\* Concurrency: uploads while no request runs, then deletes and restores in any interleaving
NextConc ==
    \/ Upload([stem |-> "a", ext |-> ".pdf"], "d1", "income", "alice", TRUE, "ok")
    \/ \E p \in Procs, op \in {"delete", "restore"} :
          \/ \E ids \in IdSeqs : Begin(p, op, ids)
          \/ Select(p, op)
          \/ Insert(p, op)
          \/ Remove(p, op)
          \/ Commit(p, op)
          \/ Busy(p, op)

SpecConc == Init /\ [][NextConc]_vars

\* Store errors: uploads, then one delete or restore at a time, statement by
\* statement, that the store may fail at any statement
NextFail ==
    \/ Upload([stem |-> "a", ext |-> ".pdf"], "d1", "income", "alice", TRUE, "ok")
    \/ \E op \in {"delete", "restore"} :
          \/ \E ids \in IdSeqs : Begin("p1", op, ids)
          \/ Select("p1", op)
          \/ Insert("p1", op)
          \/ Remove("p1", op)
          \/ Commit("p1", op)
          \/ Fail("p1", op)

SpecFail == Init /\ [][NextFail]_vars

\* Listing: uploads on different days, deletes, and lists in every order
NextList ==
    \/ \E doc \in {"d1", "d3"}, type \in Types :
          Upload([stem |-> "a", ext |-> ".pdf"], doc, type, "alice", TRUE, "ok")
    \/ \E ids \in IdSeqs : Delete(ids)
    \/ \E type \in Types, sort_by \in SortInputs, order \in Orders :
          GetInvoices(type, sort_by, order)
    \/ \E d \in TickSteps : Tick(d)

SpecList == Init /\ [][NextList]_vars

\* Searching: uploads on different days, an update that blanks the amount,
\* deletes, and searches with every combination of arguments
NextSearch ==
    \/ \E type \in Types :
          Upload([stem |-> "a", ext |-> ".pdf"], "d1", type, "alice", TRUE, "ok")
    \/ \E id \in Ids : Update(id, BlankAmount)
    \/ \E ids \in IdSeqs : Delete(ids)
    \/ \E keyword \in Keywords, type \in SearchTypes, date \in SearchDates,
          amount \in SearchAmounts :
          \/ Search(keyword, type, date, "", amount, "")
          \/ Search(keyword, type, "", date, "", amount)
    \/ Tick(RetentionDays)

SpecSearch == Init /\ [][NextSearch]_vars

\* Dates: uploads of documents whose dates are printed in every way, and deletes
NextDate ==
    \/ \E doc \in DateDocs :
          Upload([stem |-> "a", ext |-> ".pdf"], doc, "income", "alice", TRUE, "ok")
    \/ \E ids \in IdSeqs : Delete(ids)

SpecDate == Init /\ [][NextDate]_vars

\* The store: deletes and restores in any interleaving, with uploads, purges,
\* reads of the recycle bin and the passing of time while no request runs
NextStore ==
    \/ Upload([stem |-> "a", ext |-> ".pdf"], "d1", "income", "alice", TRUE, "ok")
    \/ \E ids \in {<<i>> : i \in Ids} : PermanentDelete(ids)
    \/ EmptyRecycleBin(NULL)
    \/ GetRecycleBin("income")
    \/ Tick(RetentionDays + 1)
    \/ \E p \in Procs, op \in {"delete", "restore"} :
          \/ \E ids \in {<<i>> : i \in Ids} : Begin(p, op, ids)
          \/ Select(p, op)
          \/ Insert(p, op)
          \/ Remove(p, op)
          \/ Commit(p, op)
          \/ Busy(p, op)

SpecStore == Init /\ [][NextStore]_vars

\* Without force: uploads that never set force, deletes, restores and updates
NextNoForce ==
    \/ \E doc \in Docs :
          Upload([stem |-> "a", ext |-> ".pdf"], doc, "income", "alice", FALSE, "ok")
    \/ \E ids \in IdSeqs : Delete(ids)
    \/ \E ids \in IdSeqs : Restore(ids)
    \/ \E id \in Ids : Update(id, NumberData)
    \/ \E ids \in IdSeqs : BatchUpdate(ids, BuyerData)

SpecNoForce == Init /\ [][NextNoForce]_vars

\* Racing uploads: non-forced uploads in any interleaving of their steps, and
\* deletes while no request runs
NextRace ==
    \/ \E p \in Procs :
          \/ \E doc \in {"d1", "d3"} : UploadBegin(p, doc)
          \/ UploadCheckHash(p)
          \/ UploadSave(p)
          \/ UploadExtract(p)
          \/ UploadCheckNumber(p)
          \/ UploadInsert(p)
          \/ UploadCommit(p)
          \/ UploadBusy(p)
    \/ \E i \in Ids : Delete(<<i>>)

SpecRace == Init /\ [][NextRace]_vars

\* Documents: uploads under both spellings of the extension, accepted, rejected
\* and failed, and the operations that remove documents
NextDocs ==
    \/ \E file \in PdfNames, doc \in {"d1", "d2"}, force \in BOOLEAN, upstream \in Upstream :
          Upload(file, doc, "income", "alice", force, upstream)
    \/ \E i \in Ids : Delete(<<i>>)
    \/ \E i \in Ids : PermanentDelete(<<i>>)
    \/ EmptyRecycleBin(NULL)
    \/ Tick(RetentionDays)

SpecDocs == Init /\ [][NextDocs]_vars

\* Records: uploads with and without category and buyer, then every operation
\* that keeps a record (updates, deletes, restores, reads of the recycle bin),
\* all within one day
NextRecord ==
    \/ \E type \in {"income", NULL}, buyer \in {"alice", NULL} :
          Upload([stem |-> "a", ext |-> ".pdf"], "d1", type, buyer, TRUE, "ok")
    \/ \E id \in Ids, data \in RecordBodies : Update(id, data)
    \/ \E ids \in IdSeqs, data \in RecordBodies : BatchUpdate(ids, data)
    \/ \E ids \in IdSeqs : Delete(ids)
    \/ \E ids \in IdSeqs : Restore(ids)
    \/ GetRecycleBin("income")

SpecRecord == Init /\ [][NextRecord]_vars

----------------------------------------------------------------------------
(* Properties *)

Rows == invoices \cup recycle_bin

\* the fields of a record other than its id
RecordFields == {"type", "buyer_name", "pdf_path", "file_hash", "created_at", "updated_at"}
                    \cup ExtractedFields

SameFields(a, b) == \A c \in RecordFields : a[c] = b[c]

Contains(ids, id) == \E i \in 1..Len(ids) : ids[i] = id

\* C1, the Delete: in every reachable state, for every Active record A and
\* every Delete request naming it, the record is absent from Active after the
\* request, and the recycle bin (as a read of A's category returns it) holds it
\* with deleted_at set to the time of the request and every other field as in A.
C1_Delete ==
    \A A \in invoices : \A ids \in IdSeqs :
        Contains(ids, A.id) =>
            LET out == DeleteOutcome(Committed, files, now, ids)
                bin == GetRecycleBinOutcome(out.db, out.files, now, A.type).data
            IN  /\ \A r \in out.db.invoices : r.rec # A.rec /\ r.id # A.id
                /\ \E b \in bin : /\ b.rec = A.rec
                                  /\ b.deleted_at = now
                                  /\ SameFields(A, b)

\* C1, the Restore: in every reachable state, for every Recycled record B and
\* every Restore request naming it, the record is Active after the request, has
\* no deleted_at, has every other field as in B, and is gone from the bin.
C1_Restore ==
    \A B \in recycle_bin : \A ids \in IdSeqs :
        Contains(ids, B.id) =>
            LET out == RestoreOutcome(Committed, files, ids)
            IN  /\ \A r \in out.db.recycle_bin : r.rec # B.rec /\ r.id # B.id
                /\ \E a \in out.db.invoices : /\ a.rec = B.rec
                                              /\ "deleted_at" \notin DOMAIN a
                                              /\ SameFields(B, a)

\* C1, between the two: a row of the recycle bin is never altered while it is there.
C1_BinRowsKept ==
    \A b \in recycle_bin : \A c \in recycle_bin' : b.id = c.id => b = c

\* C1: Delete moves an Active record to the recycle bin with deleted_at set,
\* a following Restore makes it Active again without deleted_at, and every
\* field other than the id has the value it had before the Delete.
C1_DeleteRestoreRoundTrip ==
    /\ [](C1_Delete /\ C1_Restore)
    /\ [][C1_BinRowsKept]_vars

\* a record that went through Delete and Restore is Active, and time has passed
\* since it was ingested
C1_Witness ==
    /\ resp = Response("restore", 200, "success")
    /\ \E a \in invoices : a.id # a.rec /\ a.updated_at < now

\* C2: a record keeps its id for its whole life: whatever step is taken, a record
\* held (Active or Recycled) before and after it is held under the same id.
C2_IdImmutable ==
    [][\A r \in Rows : \A q \in invoices' \cup recycle_bin' : r.rec = q.rec => r.id = q.id]_vars

\* C3: in every reachable state, when a non-forced upload of a document is
\* accepted, a second non-forced upload of the same bytes right after it, under
\* any PDF file name and category, is answered duplicate_file and leaves the
\* Active records exactly as the first upload left them.
C3_SecondUploadIsDuplicate ==
    \A doc \in Docs : \A file1 \in PdfNames : \A up1 \in Upstream :
        LET first == UploadOutcome(Committed, files, now, file1, doc, "income", "alice",
                                   FALSE, up1)
        IN  first.resp.tag = "success" =>
                \A file2 \in PdfNames : \A type2 \in {"income", NULL} : \A up2 \in Upstream :
                    LET second == UploadOutcome(first.db, first.files, now, file2, doc, type2,
                                                "alice", FALSE, up2)
                    IN  /\ second.resp = Response("upload", 409, "duplicate_file")
                        /\ second.db.invoices = first.db.invoices

\* an upload was answered duplicate_file while a record with its fingerprint is Active
C3_Witness ==
    /\ resp = Response("upload", 409, "duplicate_file")
    /\ \E r \in invoices : r.file_hash = get_file_hash("d1")

\* C4: in every reachable state, a non-forced upload that reaches the
\* invoice-number check (PDF name, no Active record with its fingerprint,
\* rasterization and OCR succeed) is answered duplicate_number and adds no record
\* when its extracted number is not empty and some Active record has it; and it
\* is not answered duplicate_number when the number is empty or no Active record
\* has it (Recycled records do not count).
C4_NumberDuplicateRejected ==
    \A doc \in Docs : \A file \in PdfNames : \A type \in {"income", NULL} :
        LET out == UploadOutcome(Committed, files, now, file, doc, type, "alice", FALSE, "ok")
            number == extract_invoice_info(doc).invoice_number
            held == \E r \in invoices : r.invoice_number = number
        IN  (\A r \in invoices : r.file_hash # get_file_hash(doc)) =>
                IF number # "" /\ held
                THEN /\ out.resp = Response("upload", 409, "duplicate_number")
                     /\ out.db = Committed
                ELSE out.resp.tag # "duplicate_number"

\* C5: in every reachable state, a forced upload is never answered as a
\* duplicate, whatever Active records share its fingerprint or its number; and
\* with a PDF name, a category, and rasterization and OCR succeeding, it commits
\* exactly one new Active record, of this document, and keeps the others.
C5_ForceAlwaysCommits ==
    \A doc \in Docs : \A file \in PdfNames \cup BadNames : \A type \in {"income", NULL} :
        \A up \in Upstream :
            LET out == UploadOutcome(Committed, files, now, file, doc, type, "alice", TRUE, up)
                new == out.db.invoices \ invoices
            IN  /\ out.resp.code # 409
                /\ out.resp.tag \notin {"duplicate_file", "duplicate_number"}
                /\ (file \in PdfNames /\ type # NULL /\ up = "ok") =>
                       /\ out.resp = Response("upload", 200, "success")
                       /\ invoices \subseteq out.db.invoices
                       /\ Cardinality(new) = 1
                       /\ \A r \in new : r.file_hash = get_file_hash(doc)
                       /\ out.db.recycle_bin = recycle_bin

\* an upload was accepted and two Active records have one fingerprint and one number
C5_Witness ==
    /\ resp = Response("upload", 200, "success")
    /\ \E r, q \in invoices : /\ r.id # q.id
                              /\ r.file_hash = q.file_hash
                              /\ r.invoice_number = q.invoice_number
                              /\ r.invoice_number # ""

\* C6, the read: in every reachable state, a read of the recycle bin for any
\* category leaves in the bin exactly the rows deleted at most RetentionDays
\* ago, returns those of them that have the category, and changes no Active
\* record.
C6_Read ==
    \A type \in Types :
        LET out == GetRecycleBinOutcome(Committed, files, now, type)
            kept == {r \in recycle_bin : now - r.deleted_at <= 30}
        IN  /\ out.db.recycle_bin = kept
            /\ out.data = {r \in kept : r.type = type}
            /\ out.db.invoices = invoices
            /\ \A r \in recycle_bin :
                   /\ now - r.deleted_at = 31 => r \notin out.db.recycle_bin
                   /\ now - r.deleted_at = 29 => r \in out.db.recycle_bin

\* C6, afterwards: a record held after a step was held before it or is a newly
\* ingested one, so a purged record is in no later read.
C6_NoReturn ==
    \A q \in invoices' \cup recycle_bin' :
        (\E r \in Rows : r.rec = q.rec) \/ q.rec > seq.invoices

\* C6: a read of the recycle bin purges exactly the Recycled records deleted
\* more than 30 days ago, for good, and changes no Active record.
C6_SweepPurgesExpired ==
    /\ []C6_Read
    /\ [][C6_NoReturn]_vars

\* the bin was read, a record deleted 31 days before is gone from it (its
\* document is left without a row), and a record deleted later is still in it
C6_Witness ==
    /\ resp = Response("recycle_bin", 200, "success")
    /\ \E f \in DOMAIN files : f.ts = now - 31 /\ \A r \in Rows : r.pdf_path # f
    /\ \E r \in recycle_bin : now - r.deleted_at <= 30

\* C7: whatever step is taken, the stored document of every record it purges
\* (a Recycled record that is neither Recycled nor Active after the step) is
\* gone from the uploads directory after the step.
C7_PurgeReleasesDocument ==
    [][\A r \in recycle_bin :
          (\A q \in invoices' \cup recycle_bin' : q.rec # r.rec) =>
              r.pdf_path \notin DOMAIN files']_vars

\* C8: in every state reached by interleaved Delete and Restore requests, each
\* record has at most one row in the Active and Recycled tables together: it
\* is never in both, and never twice in one.
C8_OneRowPerRecord ==
    \A r, q \in Rows : r.rec = q.rec => r = q

\* what an accepted request leaves of Active record A: the fields of the request
\* that are in the list, updated_at refreshed, every other field as it was
C9_Written(A, a, data, list, t) ==
    /\ a.id = A.id
    /\ DOMAIN a = DOMAIN A
    /\ \A k \in DOMAIN A :
           a[k] = IF k \in (DOMAIN data) \cap list THEN data[k]
                  ELSE IF k = "updated_at" THEN t
                  ELSE A[k]

\* a request is refused when no field of the list is in it, or when it sets
\* category or buyer to null
C9_Refused(data, list) ==
    \/ (DOMAIN data) \cap list = {}
    \/ \E k \in (DOMAIN data) \cap list \cap {"type", "buyer_name"} : data[k] = NULL

\* in every reachable state, an accepted Update writes to its Active record the
\* request fields in updateList and an accepted BatchUpdate writes to its Active
\* records the request fields in batchList; every other request field is ignored
\* and never written, and records not named are untouched
C9_Lists(updateList, batchList) ==
    \A data \in UpdateBodies :
        /\ \A id \in Ids :
              LET out == UpdateOutcome(Committed, files, now, id, data)
              IN  /\ out.db.recycle_bin = recycle_bin
                  /\ \A A \in invoices :
                         IF A.id = id /\ ~C9_Refused(data, updateList)
                         THEN /\ out.resp.code = 200
                              /\ \E a \in out.db.invoices :
                                     C9_Written(A, a, data, updateList, now)
                         ELSE A \in out.db.invoices
        /\ \A ids \in IdSeqs :
              LET out == BatchUpdateOutcome(Committed, files, now, ids, data)
              IN  /\ out.db.recycle_bin = recycle_bin
                  /\ \A A \in invoices :
                         IF Contains(ids, A.id) /\ ~C9_Refused(data, batchList)
                         THEN /\ out.resp.code = 200
                              /\ \E a \in out.db.invoices :
                                     C9_Written(A, a, data, batchList, now)
                         ELSE A \in out.db.invoices

\* C9 as claimed: Update and BatchUpdate accept the same allow-list, category,
\* buyer and the seven extracted fields: a request field in it is written to the
\* targeted Active records, any other is ignored and never written.
C9_SameAllowList ==
    C9_Lists({"type", "buyer_name"} \cup ExtractedFields,
             {"type", "buyer_name"} \cup ExtractedFields)

\* C9 as amended: Update accepts category, buyer and the seven extracted
\* fields, BatchUpdate accepts category and buyer only: a request field in the
\* operation's list is written to the targeted Active records, any other is
\* ignored and never written.
C9_AllowLists ==
    C9_Lists({"type", "buyer_name"} \cup ExtractedFields, {"type", "buyer_name"})

\* a batch update was accepted and left a record with the new category and buyer
\* and its old invoice number, next to one that a single update rewrote in full
C9_Witness ==
    /\ resp = Response("batch_update", 200, "success")
    /\ \E a \in invoices : /\ a.buyer_name = AllData.buyer_name
                           /\ a.invoice_number # AllData.invoice_number
    /\ \E a \in invoices : a.invoice_number = AllData.invoice_number

\* validation errors for an update without fields
NoValidFields == {"no_data", "no_valid_fields"}

\* C10: in every reachable state, an Update or BatchUpdate none of whose fields
\* is in the handler's allow-list is refused with status 400, as having no
\* (valid) field unless it is a BatchUpdate that names no id, and changes no
\* field of any record, updated_at included.
C10_EmptyUpdateRejected ==
    \A data \in UpdateBodies :
        /\ (DOMAIN data) \cap ({"type", "buyer_name"} \cup ExtractedFields) = {} =>
              \A id \in Ids :
                  LET out == UpdateOutcome(Committed, files, now, id, data)
                  IN  /\ out.resp.code = 400
                      /\ out.resp.tag \in NoValidFields
                      /\ out.db = Committed
        /\ (DOMAIN data) \cap {"type", "buyer_name"} = {} =>
              \A ids \in IdSeqs :
                  LET out == BatchUpdateOutcome(Committed, files, now, ids, data)
                  IN  /\ out.resp.code = 400
                      /\ ids # <<>> => out.resp.tag \in NoValidFields
                      /\ out.db = Committed

\* an update was refused for having no valid field, while an Active record was
\* last updated before now
C10_Witness ==
    /\ resp.code = 400
    /\ resp.tag = "no_valid_fields"
    /\ \E a \in invoices : a.updated_at < now

\* C11: in every reachable state, an Update or a BatchUpdate that carries a
\* field of the handler's allow-list and names no Active record (the id was
\* never given out, or its record is Recycled or gone) is answered 404, not
\* found, and leaves every Active and every Recycled record as it was.
C11_NotFound ==
    \A data \in UpdateBodies :
        /\ (DOMAIN data) \cap UpdateAllowed # {} =>
              \A id \in Ids :
                  SelectById(invoices, id) = {} =>
                      LET out == UpdateOutcome(Committed, files, now, id, data)
                      IN  /\ out.resp = Response("update", 404, "not_found")
                          /\ out.db = Committed
        /\ (DOMAIN data) \cap BatchUpdateAllowed # {} =>
              \A ids \in IdSeqs \ {<<>>} :
                  (\A i \in 1..Len(ids) : SelectById(invoices, ids[i]) = {}) =>
                      LET out == BatchUpdateOutcome(Committed, files, now, ids, data)
                      IN  /\ out.resp.code = 404
                          /\ out.db = Committed

\* C12: in every reachable state, every Active and every Recycled record has a
\* category and a buyer that are neither missing nor empty.
C12_CategoryAndBuyerSet ==
    \A r \in Rows : /\ r.type \notin {"", NULL}
                    /\ r.buyer_name \notin {"", NULL}

\* C13: in every reachable state, an upload of a PDF whose category is missing,
\* or whose buyer is missing, empty or blank, is answered 400 (a validation
\* error), adds no record, and leaves no file of this attempt in the uploads
\* directory.
C13_MissingFieldRejected ==
    \A file \in PdfNames : \A doc \in Docs : \A force \in BOOLEAN :
        \A type \in {"income", NULL} : \A buyer \in {"alice", "", " ", NULL} :
            (type = NULL \/ buyer # "alice") =>
                LET out == UploadOutcome(Committed, files, now, file, doc, type, buyer,
                                         force, "ok")
                IN  /\ out.resp.code = 400
                    /\ out.db = Committed
                    /\ \/ out.files = files
                       \/ StoredName(now, file) \notin DOMAIN out.files

\* C14, set at ingestion: every record held has the fingerprint of a document.
C14_FingerprintOfDocument ==
    \A r \in Rows : \E doc \in Docs : r.file_hash = get_file_hash(doc)

\* C14, kept: whatever step is taken, a record held before and after it has the
\* same fingerprint before and after.
C14_FingerprintKept ==
    \A r \in Rows : \A q \in invoices' \cup recycle_bin' :
        q.rec = r.rec => q.file_hash = r.file_hash

\* C14: a record's fingerprint is set when it is ingested and no later
\* operation on it (update, batch update, delete, restore, read of the recycle
\* bin) changes it.
C14_FingerprintImmutable ==
    /\ []C14_FingerprintOfDocument
    /\ [][C14_FingerprintKept]_vars

\* the recycle bin was read while an Active record had been updated by both
\* handlers, deleted and restored
C14_Witness ==
    /\ resp = Response("recycle_bin", 200, "success")
    /\ \E a \in invoices : /\ a.id # a.rec
                           /\ a.buyer_name = BuyerData.buyer_name
                           /\ a.type = BlankData.type

C16_FailedIngestLeavesNoFile ==
    \A doc \in Docs : \A file \in PdfNames : \A type \in {"income", NULL} :
        \A force \in BOOLEAN : \A up \in {"raster_fails", "ocr_fails"} :
            LET out == UploadOutcome(Committed, files, now, file, doc, type, "alice", force, up)
                filename == StoredName(now, secure_filename(file))
            IN  out.resp.tag # "duplicate_file" =>
                    /\ out.resp.code = 500
                    /\ out.db = Committed
                    /\ filename \notin DOMAIN out.files
                    /\ ImagePath(filename) \notin DOMAIN out.files

\* an upload failed in OCR while other records are Active, and no page image
\* is in the uploads directory
C16_Witness ==
    /\ resp = Response("upload", 500, "ocr_failed")
    /\ invoices # {}
    /\ \A f \in DOMAIN files : f.ext # ".jpg"

\* C17: in every reachable state, the answer to a non-forced upload rejected as
\* a duplicate carries the id of an Active record in conflict with it: one with
\* the same fingerprint for duplicate_file, one with the same invoice number
\* for duplicate_number.
C17_VerdictCarriesId ==
    \A doc \in Docs : \A file \in PdfNames :
        LET out == UploadOutcome(Committed, files, now, file, doc, "income", "alice", FALSE, "ok")
        IN  out.resp.code = 409 =>
                /\ "id" \in DOMAIN out.body
                /\ \E r \in invoices :
                       /\ r.id = out.body.id
                       /\ out.resp.tag = "duplicate_file" => r.file_hash = get_file_hash(doc)
                       /\ out.resp.tag = "duplicate_number" =>
                              r.invoice_number = extract_invoice_info(doc).invoice_number

\* C18, the purges: in every reachable state, a permanent delete of any ids, an
\* emptying of the bin for any category or for all, and a read of the bin (with
\* its retention sweep) leave the Active table exactly as it is.
C18_PurgesLeaveActive ==
    /\ \A ids \in IdSeqs :
           PermanentDeleteOutcome(Committed, files, ids).db.invoices = invoices
    /\ \A type \in Types \cup {NULL} :
           EmptyRecycleBinOutcome(Committed, files, type).db.invoices = invoices
    /\ \A type \in Types :
           GetRecycleBinOutcome(Committed, files, now, type).db.invoices = invoices

\* C18, the restores: in every reachable state, a restore of any ids brings
\* back no record that is not held now, and loses none.
C18_RestoreRevivesNothing ==
    \A ids \in IdSeqs :
        LET out == RestoreOutcome(Committed, files, ids)
        IN  {r.rec : r \in out.db.invoices \cup out.db.recycle_bin} = {r.rec : r \in Rows}

\* C18, leaving Active: whatever step is taken, an Active record is still Active
\* and unaltered after it, or the step is a delete and the record is Recycled.
C18_LeavesByDelete ==
    \A a \in invoices :
        \/ a \in invoices'
        \/ /\ resp'.op = "delete"
           /\ \E b \in recycle_bin' : b.rec = a.rec
           /\ \A q \in invoices' : q.rec # a.rec

\* C18, no return: whatever step is taken, a record held after it was held
\* before it, or the step is an upload and the record is the one it ingested.
C18_NoResurrection ==
    \A q \in invoices' \cup recycle_bin' :
        \/ \E r \in Rows : r.rec = q.rec
        \/ resp'.op = "upload" /\ q \in invoices' /\ q.rec = seq.invoices + 1

\* C18: an Active record leaves the Active table only by a delete, which puts
\* it in the recycle bin; no purge touches an Active record; and a purged record
\* never comes back, by a restore or otherwise.
C18_ActiveLeavesOnlyByDelete ==
    /\ [](C18_PurgesLeaveActive /\ C18_RestoreRevivesNothing)
    /\ [][C18_LeavesByDelete /\ C18_NoResurrection]_vars

\* a permanent delete was answered, a deleted record is gone for good (the bin
\* is empty and no Active record was ever restored), and another is Active
C18_Witness ==
    /\ resp = Response("permanent_delete", 200, "success")
    /\ seq.recycle_bin >= 1
    /\ recycle_bin = {}
    /\ invoices # {}
    /\ \A a \in invoices : a.id = a.rec

\* C19, in one set: no record is Active and Recycled at once.
C19_InOneSet ==
    \A a \in invoices : \A b \in recycle_bin : a.rec # b.rec

\* C19, the failure: a step in which a running delete or restore ends with
\* status 500 leaves both tables as they were before it, and leaves the request
\* no open transaction.
C19_FailedStep ==
    \A p \in Procs :
        (pc[p] # "idle" /\ pc'[p] = "idle" /\ resp'.code = 500) =>
            /\ invoices' = invoices
            /\ recycle_bin' = recycle_bin
            /\ writer' # p

\* C19, before the end: the tables change only in a step that ends a running
\* request with status 200 (its commit), or while no request is running.
C19_PublishedAtCommit ==
    (invoices' # invoices \/ recycle_bin' # recycle_bin) =>
        \/ Quiet
        \/ \E p \in Procs : pc[p] # "idle" /\ pc'[p] = "idle" /\ resp'.code = 200

\* C19, in neither: no step of a delete or restore loses a record.
C19_NoneLost ==
    \A r \in Rows : \E q \in invoices' \cup recycle_bin' : q.rec = r.rec

\* C19: when the store raises at any statement of a delete or a restore, every
\* record is, after the request has returned, in the table it was in before the
\* request, those of the batch moved before the failing statement included: no
\* record is in both tables or in neither.
C19_MoveAllOrNothing ==
    /\ []C19_InOneSet
    /\ [][C19_FailedStep /\ C19_PublishedAtCommit /\ C19_NoneLost]_vars

\* a delete failed after its loop had come to its end, and every id is still
\* that of an Active record: the rows it had moved are back
C19_Witness ==
    /\ resp = Response("delete", 500, "failed")
    /\ pc["p1"] = "idle"
    /\ loc["p1"].ids = <<>>
    /\ recycle_bin = {}
    /\ \A i \in Ids : \E a \in invoices : a.id = i

\* C20: in every reachable state, a list of a category with a sort key outside
\* the whitelist and any order argument is answered 200 and returns the Active
\* records of the category, each once, by created_at descending.
C20_FallbackCreatedDescending ==
    \A type \in Types : \A sort_by \in SortInputs \ ValidSorts : \A order \in Orders :
        LET out == GetInvoicesOutcome(Committed, files, type, sort_by, order)
        IN  /\ out.resp.code = 200
            /\ out.data # {}
            /\ \A rows \in out.data :
                   /\ {rows[i].rec : i \in 1..Len(rows)} = {r.rec : r \in {q \in invoices : q.type = type}}
                   /\ Len(rows) = Cardinality({q \in invoices : q.type = type})
                   /\ \A i, j \in 1..Len(rows) : i < j => rows[i].created_at >= rows[j].created_at

\* the keyword occurs, character by character, in the text
C21_Occurs(keyword, text) ==
    LET t == Chars(text)
        k == Chars(keyword)
    IN  \E i \in 0..(Len(t) - Len(k)) : \A j \in 1..Len(k) : k[j] = t[i + j]

\* a record satisfies every argument that is given: it has the keyword in one of
\* the four text fields, it has the category, its date is in the range (as
\* YYYYMMDD texts compare), and it has an amount, which is in the range
C21_Satisfies(r, keyword, type, start_date, end_date, min_amount, max_amount) ==
    /\ keyword # "" =>
           \E c \in {"invoice_number", "buyer_name", "seller_name", "invoice_content"} :
               C21_Occurs(keyword, r[c])
    /\ type # "" => r.type = type
    /\ start_date # "" => TextRank(r.invoice_date) >= TextRank(Dashless(start_date))
    /\ end_date # "" => TextRank(r.invoice_date) <= TextRank(Dashless(end_date))
    /\ min_amount # "" =>
           r.total_amount # "" /\ CastReal(r.total_amount) >= ParseFloat(min_amount)
    /\ max_amount # "" =>
           r.total_amount # "" /\ CastReal(r.total_amount) <= ParseFloat(max_amount)

\* C21: in every reachable state, a search that is answered returns at most 100
\* records, each of them Active and satisfying every argument that is given, by
\* created_at descending.
C21_SearchReturnsMatches ==
    \A keyword \in Keywords : \A type \in SearchTypes : \A start_date, end_date \in SearchDates :
        \A min_amount, max_amount \in SearchAmounts :
            LET out == SearchOutcome(Committed, files, keyword, type, start_date, end_date,
                                     min_amount, max_amount)
            IN  \A rows \in out.data :
                    /\ Len(rows) <= 100
                    /\ \A i \in 1..Len(rows) :
                           /\ \E a \in invoices : a.id = rows[i].id /\ a.rec = rows[i].rec
                           /\ C21_Satisfies(rows[i], keyword, type, start_date, end_date,
                                            min_amount, max_amount)
                    /\ \A i, j \in 1..Len(rows) :
                           i < j => rows[i].created_at >= rows[j].created_at

\* C22: the date extracted from a document whose date is printed as a year,
\* month and day with their markers is the year followed by the month and the
\* day in two digits each, whether the month and the day are printed in one
\* digit or in two; a date printed as eight digits is extracted as it is; and
\* every record holds the date so extracted from its document.
C22_DateCanonical ==
    /\ \A doc \in DateDocs \ {"t10"} :
           extract_invoice_info(doc).invoice_date =
               Join(Year \o ZFill2(DateParts(doc).m) \o ZFill2(DateParts(doc).d))
    /\ extract_invoice_info("t10").invoice_date = Join(OcrDate("t10"))
    /\ \A r \in Rows : r.invoice_date \in {"20240305", "20240315", "20241205", "20241215"}

\* C23, exactly once: every record held has one row in the two tables together.
C23_OneRow ==
    \A r \in Rows : Cardinality({q \in Rows : q.rec = r.rec}) = 1

\* C23, not lost: whatever step is taken, a record held before it is held
\* after it, unless the step is a purge (a permanent delete, an emptying of the
\* bin, or a read of the bin with its sweep) and the record was Recycled.
C23_NotLost ==
    \A r \in Rows :
        \/ \E q \in invoices' \cup recycle_bin' : q.rec = r.rec
        \/ /\ r \in recycle_bin
           /\ resp'.op \in {"permanent_delete", "empty", "recycle_bin"}

\* C23: after any sequence and interleaving of uploads, deletes, restores,
\* purges and reads of the bin, every record that was accepted and not purged
\* has exactly one row in the Active and Recycled tables together.
C23_ExactlyOneRowPerRecord ==
    /\ []C23_OneRow
    /\ [][C23_NotLost]_vars

\* no two rows of a table have one fingerprint
C24_Distinct(rows) ==
    \A a, b \in rows : a.file_hash = b.file_hash => a = b

\* C24: in every state reached without a forced upload, no two Active records
\* have one fingerprint, and none do after a restore of any ids from that state
\* (a record deleted, its bytes uploaded again, then the record restored).
C24_FingerprintUnique ==
    /\ C24_Distinct(invoices)
    /\ \A ids \in IdSeqs : C24_Distinct(RestoreOutcome(Committed, files, ids).db.invoices)

\* no two rows of a table have one invoice number, unless it is empty
C25_Distinct(rows) ==
    \A a, b \in rows : (a.invoice_number # "" /\ a.invoice_number = b.invoice_number) => a = b

\* C25: in every state reached without a forced upload, no two Active records
\* have one non-empty invoice number, and none do after an update of any record
\* that sets its invoice number, or a restore of any ids, from that state.
C25_NumberUnique ==
    /\ C25_Distinct(invoices)
    /\ \A id \in Ids : C25_Distinct(UpdateOutcome(Committed, files, now, id, NumberData).db.invoices)
    /\ \A ids \in IdSeqs : C25_Distinct(RestoreOutcome(Committed, files, ids).db.invoices)

\* C26: in every state reached by non-forced uploads running concurrently, the
\* Active records of one fingerprint are at most one: of two uploads of the
\* same bytes at most one has committed a record.
C26_OneUploadCommits ==
    \A doc \in Docs :
        Cardinality({r \in invoices : r.file_hash = get_file_hash(doc)}) <= 1

\* C27: in every reachable state each Active and each Recycled record's
\* pdf_path names a file of the upload folder, and that file still holds the
\* bytes the record was ingested from: no upload and no purge of another
\* record has removed or overwritten it.
C27_Exists(r, fs) == r.pdf_path \in DOMAIN fs

C27_Intact(r, fs) == C27_Exists(r, fs) /\ get_file_hash(fs[r.pdf_path]) = r.file_hash

C27_DocumentsExist == \A r \in Rows : C27_Intact(r, files)

====
